---- MODULE Spec2Model ----
(***************************************************************************)
(* Model of include/tfrt/core_runtime/op_utils.h: the two binders          *)
(* MetadataFnImpl and DispatchFnImpl.                                      *)
(*                                                                         *)
(* A signature is the sequence of parameter kinds of the op function; the  *)
(* template recursion MetadataFnCallHelper / DispatchFnCallHelper walks it *)
(* left to right with the compile-time cursors arg_idx, result_idx,        *)
(* md_idx, has_attrs, has_chain.  static_assert's are evaluated when the   *)
(* function is registered (TFRT_METADATA / TFRT_CPU_OP instantiate the     *)
(* templates); assert's are evaluated during a call and abort it (the      *)
(* model is of a build with assertions enabled).                           *)
(***************************************************************************)
EXTENDS Integers, Sequences, FiniteSets, TLC

VARIABLES
  status,    \* "idle" | "rejected" | "registered" | "returned" | "aborted"
  fn,        \* the op function given to the macro: [binder, sig, ret]
  frame,     \* the call frame: [nargs, nmds, nres, loc, args, get]
  pargs,     \* the parameter pack bound so far (PreviousArgs... pargs)
  fnCalls,   \* how many times impl_fn was invoked
  fnOut,     \* what impl_fn did in the call (see Outs)
  rv,        \* the value impl_fn returned: values and cell ids
  results,   \* the result slots (dispatch: cell ids, 0 = null; metadata: values, 0 = untouched)
  writes,    \* per result slot, the number of assignments made during the call
  oob,       \* indices of result-slot assignments outside the slot array
  chain,     \* *chain (cell id, 0 = null)
  signal,    \* the RCReference<AsyncValue> the metadata binder returned (0 = empty)
  cells,     \* the AsyncValue cells, by id
  conts,     \* continuations registered with AndThen and not yet run
  emitting,  \* continuations running on an error: past SetErrorLocationIfUnset,
             \* before EmitError
  ran,       \* continuations that have run
  sink       \* errors reported to the host (HostContext::EmitError), in order

vars == <<status, fn, frame, pargs, fnCalls, fnOut, rv, results, writes, oob, chain,
          signal, cells, conts, emitting, ran, sink>>

(***************************************************************************)
(* Bounds                                                                  *)
(***************************************************************************)
MaxParams == 3     \* longest signature that is registered (SpecReg)
MaxBindParams == 3 \* longest signature that is called (SpecBind)
MaxCallParams == 1 \* longest signature that is called (Spec)
MaxArgs == 3       \* longest input frame
MaxResults == 2    \* most result slots
MaxMds == 2        \* most output-metadata entries
MaxTuple == 2      \* largest returned tuple
MaxLoc == 1        \* distinct Locations of calls
MaxVal == 1        \* distinct payloads of asynchronously produced values
MaxCalls == 3      \* most calls that return handles of shared cells (SpecShared)
MaxSharedCells == 1 \* most cells these calls return handles of (SpecShared)
MaxInParams == 2   \* longest signature called with unresolved inputs (SpecIn)
MaxInArgs == 2     \* longest input frame of these calls (SpecIn)

\* The locations of calls, and the locations an error made elsewhere may
\* carry already (0: none; one more than the calls have: another call site).
Locs == 1..MaxLoc
ErrLocs == 0..(MaxLoc + 1)
Vals == 1..MaxVal

\* size_t arithmetic.  The comparisons of the int cursors with
\* ArrayRef::size() are made in size_t, where -1 is the largest value; the
\* modulus stands for 2^64 (any modulus above every size behaves alike).
SizeMod == 2^30
ToSize(i) == i % SizeMod

SeqsUpTo(S, n) == UNION {[1..k -> S] : k \in 0..n}

(***************************************************************************)
(* Signatures and return types                                             *)
(***************************************************************************)
\* Parameter kinds.  "Pos" is a concrete input (const TensorMetadata& for the
\* metadata binder, Head* / const Head& for the dispatch binder), "Arg" is
\* Argument<Head>, "Opt" OptionalOpArg<Head>, "Var" VariadicOpArg<Head> /
\* RepeatedArguments<Head>, "Attrs" const OpAttrsRef&, "Md" the dispatch
\* binder's const TensorMetadata&, "Res" TensorMetadata* /
\* RCReference<AsyncValue>*, "Chain" AsyncValueRef<Chain>*, "Loc" Location,
\* "Host" HostContext*.  TFRT_CPU_OP instantiates DispatchFnImpl with
\* DeviceContext = HostContext, which disables the DeviceContext*
\* specialization (its Enable argument is false).
MetadataKinds == {"Pos", "Opt", "Var", "Attrs", "Res", "Loc"}
DispatchKinds == {"Pos", "Arg", "Opt", "Var", "Attrs", "Md", "Res", "Chain",
                  "Loc", "Host"}

InputKinds == {"Pos", "Arg", "Opt", "Var"}
PositionalKinds == {"Pos", "Arg"}
OptVarKinds == {"Opt", "Var"}

\* Return types: [fallible, shape, elems].  fallible is llvm::Expected<...>;
\* elems are the element kinds of a std::tuple ("c" concrete, "a" an
\* AsyncValueRef), empty for the other shapes.
TupleElems == SeqsUpTo({"c", "a"}, MaxTuple)
ConcreteElems == SeqsUpTo({"c"}, MaxTuple)

Ret(f, s, e) == [fallible |-> f, shape |-> s, elems |-> e]

DispatchRets ==
  {Ret(FALSE, "void", <<>>)}
  \cup {Ret(f, s, <<>>) : f \in BOOLEAN, s \in {"T", "Chain", "AsyncT", "Opaque"}}
  \cup {Ret(f, "Tuple", e) : f \in BOOLEAN, e \in TupleElems}

MetadataRets ==
  {Ret(FALSE, "void", <<>>)}
  \cup {Ret(f, s, <<>>) : f \in BOOLEAN, s \in {"Signal", "T"}}
  \cup {Ret(f, "Tuple", e) : f \in BOOLEAN, e \in ConcreteElems}

AllRets == MetadataRets \cup DispatchRets
BindRets == {Ret(FALSE, s, <<>>) : s \in {"void", "Signal", "T"}}

(***************************************************************************)
(* The compile-time cursors                                                *)
(***************************************************************************)
Cursor(a, r, m, attrs, ch) ==
  [arg_idx |-> a, result_idx |-> r, md_idx |-> m, has_attrs |-> attrs,
   has_chain |-> ch]

\* MetadataFnImpl::Invoke starts with <0, 0, false>, DispatchFnImpl::Invoke
\* with <0, 0, 0, false, false>.
Cursor0 == Cursor(0, 0, 0, FALSE, FALSE)

(***************************************************************************)
(* Metadata binder: one specialization of MetadataFnCallHelper per kind    *)
(***************************************************************************)
\* The static_assert's of the specialization for kind k.
MetadataStaticCheck(k, st) ==
  CASE k = "Pos" -> st.arg_idx # -1 /\ ~st.has_attrs /\ st.result_idx = 0
    [] k \in OptVarKinds -> st.arg_idx # -1 /\ ~st.has_attrs /\ st.result_idx = 0
    [] k = "Attrs" -> ~st.has_attrs /\ st.result_idx = 0
    [] k \in {"Res", "Loc"} -> TRUE
    [] OTHER -> FALSE   \* no specialization: incomplete type

\* The template arguments of the recursive Invoke.
MetadataAdvance(k, st) ==
  CASE k = "Pos" -> [st EXCEPT !.arg_idx = st.arg_idx + 1]
    [] k \in OptVarKinds -> [st EXCEPT !.arg_idx = -1]
    [] k = "Attrs" -> [st EXCEPT !.has_attrs = TRUE]
    [] k = "Res" -> [st EXCEPT !.result_idx = st.result_idx + 1]
    [] OTHER -> st

(***************************************************************************)
(* Dispatch binder: one specialization of DispatchFnCallHelper per kind    *)
(***************************************************************************)
DispatchStaticCheck(k, st) ==
  CASE k \in PositionalKinds ->
         ~st.has_chain /\ ~st.has_attrs /\ st.result_idx = 0 /\ st.md_idx = 0
    [] k \in OptVarKinds ->
         st.arg_idx # -1 /\ ~st.has_chain /\ ~st.has_attrs
         /\ st.result_idx = 0 /\ st.md_idx = 0
    [] k = "Attrs" ->
         ~st.has_attrs /\ ~st.has_chain /\ st.result_idx = 0 /\ st.md_idx = 0
    [] k = "Md" -> st.result_idx = 0 /\ ~st.has_chain
    [] k = "Res" -> ~st.has_chain
    [] k = "Chain" -> ~st.has_chain
    [] k \in {"Loc", "Host"} -> TRUE
    [] OTHER -> FALSE

DispatchAdvance(k, st) ==
  CASE k \in PositionalKinds -> [st EXCEPT !.arg_idx = st.arg_idx + 1]
    [] k \in OptVarKinds -> [st EXCEPT !.arg_idx = -1]
    [] k = "Attrs" -> [st EXCEPT !.has_attrs = TRUE]
    [] k = "Md" -> [st EXCEPT !.md_idx = st.md_idx + 1]
    [] k = "Res" -> [st EXCEPT !.result_idx = st.result_idx + 1]
    [] k = "Chain" -> [st EXCEPT !.has_chain = TRUE]
    [] OTHER -> st

StaticCheck(b, k, st) ==
  IF b = "metadata" THEN MetadataStaticCheck(k, st) ELSE DispatchStaticCheck(k, st)

Advance(b, k, st) ==
  IF b = "metadata" THEN MetadataAdvance(k, st) ELSE DispatchAdvance(k, st)

\* The cursors with which the specialization for parameter i is instantiated.
RECURSIVE CursorAt(_, _, _)
CursorAt(b, sig, i) ==
  IF i = 1 THEN Cursor0
  ELSE Advance(b, sig[i - 1], CursorAt(b, sig, i - 1))

\* The cursors of the base case.
FinalCursor(b, sig) == CursorAt(b, sig, Len(sig) + 1)

(***************************************************************************)
(* Registration: the static_assert's of the return handling                *)
(***************************************************************************)
\* Variant of DispatchReturnStaticCheck in which a returned value is not
\* checked against result-slot parameters.
DispatchReturnStaticCheckAnyResult(ret, st) ==
  /\ ret.fallible => st.result_idx = 0
  /\ CASE ret.shape \in {"void", "T", "Tuple"} -> TRUE
       [] ret.shape \in {"AsyncT", "Opaque"} -> st.result_idx = 0
       [] ret.shape = "Chain" -> ~st.has_chain
       [] OTHER -> FALSE

\* Variant of DispatchReturnStaticCheck in which a returned chain is not
\* checked against a chain parameter.
DispatchReturnStaticCheckAnyChain(ret, st) ==
  /\ ret.fallible => st.result_idx = 0
  /\ CASE ret.shape \in {"void", "Chain", "Tuple"} -> TRUE
       [] ret.shape \in {"T", "AsyncT", "Opaque"} -> st.result_idx = 0
       [] OTHER -> FALSE

\* DispatchReturnHelper<result_idx, has_chain, Return> and the HandleReturn
\* overload it selects.
DispatchReturnStaticCheck(ret, st) ==
  /\ ret.fallible => st.result_idx = 0
  /\ CASE ret.shape = "void" -> TRUE
       [] ret.shape \in {"T", "AsyncT", "Opaque"} -> st.result_idx = 0
       [] ret.shape = "Chain" -> ~st.has_chain
       [] ret.shape = "Tuple" -> TRUE
       [] OTHER -> FALSE

\* MetadataFnImpl::Invoke passes the function's return value to HandleReturn:
\* a void function has no value to pass.
MetadataReturnStaticCheck(ret, st) ==
  ret.shape \in {"Signal", "T", "Tuple"}

ReturnStaticCheck(b, ret, st) ==
  IF b = "metadata" THEN MetadataReturnStaticCheck(ret, st)
  ELSE DispatchReturnStaticCheck(ret, st)

\* The macro compiles: every static_assert of the instantiated chain holds.
Accepted(b, sig, ret) ==
  /\ \A i \in 1..Len(sig) : StaticCheck(b, sig[i], CursorAt(b, sig, i))
  /\ ReturnStaticCheck(b, ret, FinalCursor(b, sig))

(***************************************************************************)
(* Call time: the assert's and the bound parameter of each specialization   *)
(***************************************************************************)
\* A bound parameter: its kind and the frame indices it was bound to
\* (input indices for the input kinds, the slot index for "Res", the
\* output-metadata index for "Md", none for the others).
Parg(k, at) == [kind |-> k, at |-> at]

\* arguments.drop_front(arg_idx), as indices, in frame order.
DropFront(n, a) == [j \in 1..(n - a) |-> a + j - 1]

\* OptionalOpArg: "if (arg_idx < arguments.size())" binds the entry, else
\* the parameter is absent.
OptionalBinding(st, fr) ==
  IF ToSize(st.arg_idx) < fr.nargs THEN <<st.arg_idx>> ELSE <<>>

\* Variant of VariadicBinding that starts one entry late.
VariadicBindingSkipsOne(st, fr) == DropFront(fr.nargs, st.arg_idx + 1)

\* VariadicOpArg / RepeatedArguments.
VariadicBinding(st, fr) == DropFront(fr.nargs, st.arg_idx)

\* Variant of OptionalCheck that accepts any number of remaining entries.
OptionalCheckAnyRest(st, fr) == ToSize(st.arg_idx) <= fr.nargs

\* assert(arg_idx == arguments.size() - 1 || arg_idx == arguments.size())
OptionalCheck(st, fr) ==
  ToSize(st.arg_idx) = ToSize(fr.nargs - 1) \/ ToSize(st.arg_idx) = fr.nargs

\* assert(arg_idx <= arguments.size())
VariadicCheck(st, fr) == ToSize(st.arg_idx) <= fr.nargs

\* assert(arg_idx < arguments.size())
PositionalCheck(st, fr) == ToSize(st.arg_idx) < fr.nargs

\* Variant of ResultCheck that lets the index be the slot count.
ResultCheckOffByOne(st, fr) == ToSize(st.result_idx) <= fr.nres

\* assert(result_idx < results.size())
ResultCheck(st, fr) == ToSize(st.result_idx) < fr.nres

MetadataCheck(k, st, fr) ==
  CASE k = "Pos" -> PositionalCheck(st, fr)
    [] k = "Opt" -> OptionalCheck(st, fr)
    [] k = "Var" -> VariadicCheck(st, fr)
    [] k = "Res" -> ResultCheck(st, fr)
    [] OTHER -> TRUE

DispatchCheck(k, st, fr) ==
  CASE k \in PositionalKinds -> PositionalCheck(st, fr)
    [] k = "Opt" -> OptionalCheck(st, fr)
    [] k = "Var" -> VariadicCheck(st, fr)
    [] k = "Md" -> ToSize(st.md_idx) < fr.nmds
    [] k = "Res" -> ResultCheck(st, fr)
    [] OTHER -> TRUE

\* The value appended to pargs... by the specialization for kind k.
Bind(k, st, fr) ==
  CASE k \in PositionalKinds -> Parg(k, <<st.arg_idx>>)
    [] k = "Opt" -> Parg(k, OptionalBinding(st, fr))
    [] k = "Var" -> Parg(k, VariadicBinding(st, fr))
    [] k = "Md" -> Parg(k, <<st.md_idx>>)
    [] k = "Res" -> Parg(k, <<st.result_idx>>)
    [] OTHER -> Parg(k, <<>>)

\* Variant of MetadataBaseCheck without the check of the result count.
MetadataBaseCheckNoResults(st, fr) ==
  ToSize(st.arg_idx) = fr.nargs \/ st.arg_idx = -1

\* Base case of MetadataFnCallHelper.
MetadataBaseCheck(st, fr) ==
  /\ ToSize(st.arg_idx) = fr.nargs \/ st.arg_idx = -1
  /\ ToSize(st.result_idx) = fr.nres \/ st.result_idx = 0

\* Variant of DispatchBaseCheck without the check of the output-metadata
\* count.
DispatchBaseCheckNoMds(st, fr) ==
  ToSize(st.arg_idx) = fr.nargs \/ st.arg_idx = -1

\* Variant of DispatchBaseCheck without the check of the input count.
DispatchBaseCheckNoInputs(st, fr) ==
  ToSize(st.md_idx) = fr.nmds \/ st.md_idx = 0

\* Base case of DispatchFnCallHelper.
DispatchBaseCheck(st, fr) ==
  /\ ToSize(st.arg_idx) = fr.nargs \/ st.arg_idx = -1
  /\ ToSize(st.md_idx) = fr.nmds \/ st.md_idx = 0

\* The input entries of which the specialization for kind k takes the value
\* with arguments[arg_idx]->get<Head>(): Head*, const Head& and a present
\* OptionalOpArg<Head>.  Argument<Head> and RepeatedArguments<Head> keep the
\* AsyncValue pointers.
Deref(k, st, fr) ==
  CASE k = "Pos" -> <<st.arg_idx>>
    [] k = "Opt" -> OptionalBinding(st, fr)
    [] OTHER -> <<>>

\* AsyncValue::get<T>() of a cell that holds no value: a build in which get
\* checks the state stops there, another one goes on with the reference.
GetAborts(b, k, st, fr) ==
  /\ b = "dispatch"
  /\ fr.get = "checked"
  /\ \E j \in 1..Len(Deref(k, st, fr)) : fr.args[Deref(k, st, fr)[j] + 1] # "value"

ParamCheck(b, k, st, fr) ==
  IF b = "metadata" THEN MetadataCheck(k, st, fr) ELSE DispatchCheck(k, st, fr)

BaseCheck(b, st, fr) ==
  IF b = "metadata" THEN MetadataBaseCheck(st, fr) ELSE DispatchBaseCheck(st, fr)

\* The recursion over the parameters: [aborted, pargs].  It stops at the
\* first failing assert.
RECURSIVE CallHelper(_, _, _, _, _)
CallHelper(b, sig, i, fr, pa) ==
  IF i > Len(sig)
  THEN [aborted |-> ~BaseCheck(b, FinalCursor(b, sig), fr), pargs |-> pa]
  ELSE IF \/ ~ParamCheck(b, sig[i], CursorAt(b, sig, i), fr)
          \/ GetAborts(b, sig[i], CursorAt(b, sig, i), fr)
       THEN [aborted |-> TRUE, pargs |-> pa]
       ELSE CallHelper(b, sig, i + 1, fr,
                       Append(pa, Bind(sig[i], CursorAt(b, sig, i), fr)))

(***************************************************************************)
(* The state a call works on                                               *)
(***************************************************************************)
\* An AsyncValue cell.  state is "pending", "value" or "error"; loc is the
\* location stored in an error (0 = none); inner is the handle held as the
\* payload of a cell made from an AsyncValueRef (0 = none); origin tells who
\* created the cell.
Cell(s, v, l, in, o) == [state |-> s, val |-> v, loc |-> l, inner |-> in, origin |-> o]

\* The working state of one call.
Heap(fr) ==
  [aborted |-> FALSE, fnCalls |-> fnCalls,
   results |-> [i \in 1..fr.nres |-> 0], writes |-> [i \in 1..fr.nres |-> 0],
   oob |-> {}, chain |-> 0, signal |-> 0, cells |-> cells, conts |-> conts,
   rv |-> <<>>]

Abort(h) == [h EXCEPT !.aborted = TRUE]

\* results[i] = v with the 0-based index i of the code.  ArrayRef's
\* operator[] asserts the index, so an assignment outside the array aborts.
WriteSlot(h, i, v) ==
  IF h.aborted THEN h
  ELSE IF i < Len(h.results)
  THEN [h EXCEPT !.results[i + 1] = v, !.writes[i + 1] = @ + 1]
  ELSE [h EXCEPT !.oob = @ \cup {i}, !.aborted = TRUE]

NewCell(h, c) == [h EXCEPT !.cells = Append(@, c)]
LastCell(h) == Len(h.cells)

\* HostContext::MakeConcreteAsyncValueRef<T>(v): a new cell, already resolved.
MakeConcreteAsyncValueRef(h, v, in) ==
  NewCell(h, Cell("value", v, 0, in, "concrete"))

\* Location::EmitErrorAsync(err): a new error cell carrying the location.
EmitErrorAsync(h, loc) == NewCell(h, Cell("error", 0, loc, 0, "emit"))

(***************************************************************************)
(* The op function (impl_fn)                                               *)
(***************************************************************************)
\* What the op function does in a call: ok is whether a fallible function
\* succeeded, cst the state of the asynchronous value it returns ("none":
\* it returns no such value, or the empty RCReference of a metadata
\* function), val the payload of a returned resolved value, eloc the
\* location already stored in a returned error, cell the id of an existing
\* cell of which the function returns a handle (0: the value it returns is
\* a new cell).
CellStates == {"pending", "value", "error"}

Outs(ret) ==
  {o \in [ok : BOOLEAN, cst : CellStates \cup {"none"}, val : {0} \cup Vals,
          eloc : ErrLocs, cell : {0}] :
     /\ ~o.ok => ret.fallible /\ o.cst = "none" /\ o.val = 0 /\ o.eloc = 0
     /\ o.ok =>
          /\ o.cst \in CASE ret.shape \in {"AsyncT", "Opaque"} -> CellStates
                         [] ret.shape = "Chain" -> {"pending", "value"}
                         [] ret.shape = "Signal" -> {"none", "error"}
                         [] OTHER -> {"none"}
          /\ o.val # 0 <=> (o.cst = "value" /\ ret.shape # "Chain")
          /\ o.eloc # 0 => o.cst = "error"
          /\ ret.shape = "Signal" /\ o.cst = "error" => o.eloc # 0}

\* The concrete values the function returns: the i-th of them is i, so that
\* the values of a tuple are told apart.
FnVals(ret) ==
  CASE ret.shape = "T" -> <<1>>
    [] ret.shape = "Tuple" -> [i \in 1..Len(ret.elems) |-> i]
    [] OTHER -> <<>>

\* The function reports a failure: a failed Expected, or the error signal
\* of a metadata function.
FnFailed(ret, out) == ~out.ok \/ (ret.shape = "Signal" /\ out.cst = "error")

\* The function stores through the result and chain pointers it was given,
\* in parameter order (the k-th result pointer receives the value
\* MaxTuple + k, unlike any returned value); a function that fails returns
\* before storing anything.
RECURSIVE FillParams(_, _, _, _)
FillParams(h, b, pa, i) ==
  IF i > Len(pa) THEN h
  ELSE LET p == pa[i]
           h1 == CASE p.kind = "Res" /\ b = "metadata" ->
                        WriteSlot(h, p.at[1], MaxTuple + p.at[1] + 1)
                   [] p.kind = "Res" /\ b = "dispatch" ->
                        WriteSlot(NewCell(h, Cell("value", MaxTuple + p.at[1] + 1, 0, 0, "param")),
                                  p.at[1], LastCell(h) + 1)
                   [] p.kind = "Chain" ->
                        [NewCell(h, Cell("value", 0, 0, 0, "param")) EXCEPT !.chain = LastCell(h) + 1]
                   [] OTHER -> h
       IN FillParams(h1, b, pa, i + 1)

\* The elements of a returned tuple: a concrete element is its value, an
\* asynchronous element the id of a new pending cell.
RECURSIVE TupleValue(_, _, _, _)
TupleValue(h, elems, vals, i) ==
  IF i > Len(elems) THEN h
  ELSE IF elems[i] = "c"
       THEN TupleValue([h EXCEPT !.rv = Append(@, vals[i])], elems, vals, i + 1)
       ELSE TupleValue([NewCell(h, Cell("pending", 0, 0, 0, "fn")) EXCEPT
                          !.rv = Append(@, LastCell(h) + 1)],
                       elems, vals, i + 1)

\* impl_fn(args...): the heap after the call, with the returned value in rv.
ImplFn(h0, b, ret, out, pa, loc) ==
  LET h == [h0 EXCEPT !.fnCalls = @ + 1] IN
  IF ~out.ok THEN h
  ELSE IF ret.shape = "Signal" /\ out.cst = "error"
  THEN [EmitErrorAsync(h, out.eloc) EXCEPT !.rv = <<LastCell(h) + 1>>]
  ELSE LET h1 == FillParams(h, b, pa, 1) IN
       CASE ret.shape = "T" -> [h1 EXCEPT !.rv = FnVals(ret)]
         [] ret.shape = "Tuple" -> TupleValue(h1, ret.elems, FnVals(ret), 1)
         [] ret.shape \in {"AsyncT", "Opaque", "Chain"} ->
              IF out.cell # 0 THEN [h1 EXCEPT !.rv = <<out.cell>>]
              ELSE [NewCell(h1, Cell(out.cst, out.val, out.eloc, 0, "fn"))
                      EXCEPT !.rv = <<LastCell(h1) + 1>>]
         [] ret.shape = "Signal" -> [h1 EXCEPT !.rv = <<0>>]
         [] OTHER -> h1

(***************************************************************************)
(* MetadataFnImpl::HandleReturn                                            *)
(***************************************************************************)
RECURSIVE MetadataEmplaceTupleResult(_, _)
MetadataEmplaceTupleResult(h, i) ==
  IF i >= Len(h.rv) THEN h
  ELSE MetadataEmplaceTupleResult(WriteSlot(h, i, h.rv[i + 1]), i + 1)

\* Variant of MetadataExpectedFailure that returns a signal to be resolved
\* later.
MetadataExpectedFailureDeferred(h, fr) ==
  [NewCell(h, Cell("pending", 0, fr.loc, 0, "emit")) EXCEPT !.signal = LastCell(h) + 1]

\* HandleReturn(llvm::Expected<T>&&) on failure.
MetadataExpectedFailure(h, fr) ==
  [EmitErrorAsync(h, fr.loc) EXCEPT !.signal = LastCell(h) + 1]

MetadataHandleReturn(h, ret, out, fr) ==
  IF ret.fallible /\ ~out.ok THEN MetadataExpectedFailure(h, fr)
  ELSE CASE ret.shape = "Signal" -> [h EXCEPT !.signal = h.rv[1]]
         [] ret.shape = "T" ->
              IF fr.nres # 1 THEN Abort(h) ELSE WriteSlot(h, 0, h.rv[1])
         [] ret.shape = "Tuple" ->
              IF fr.nres # Len(ret.elems) THEN Abort(h)
              ELSE MetadataEmplaceTupleResult(h, 0)
         [] OTHER -> h

\* MetadataFnImpl::Invoke.
MetadataInvoke(f, fr, out) ==
  LET w == CallHelper("metadata", f.sig, 1, fr, <<>>)
      h0 == Heap(fr)
  IN [pargs |-> w.pargs,
      heap |-> IF w.aborted THEN Abort(h0)
               ELSE MetadataHandleReturn(
                      ImplFn(h0, "metadata", f.ret, out, w.pargs, fr.loc),
                      f.ret, out, fr)]

(***************************************************************************)
(* DispatchFnImpl::HandleReturn                                            *)
(***************************************************************************)
\* EmplaceTupleResult: every element goes through
\* MakeConcreteAsyncValueRef<std::tuple_element_t<I, TupleT>>.
RECURSIVE DispatchEmplaceTupleResult(_, _, _)
DispatchEmplaceTupleResult(h, elems, i) ==
  IF i >= Len(elems) THEN h
  ELSE LET h1 == IF elems[i + 1] = "c"
                 THEN MakeConcreteAsyncValueRef(h, h.rv[i + 1], 0)
                 ELSE MakeConcreteAsyncValueRef(h, 0, h.rv[i + 1])
       IN DispatchEmplaceTupleResult(WriteSlot(h1, i, LastCell(h1)), elems, i + 1)

\* for (size_t i = 1, e = results.size(); i != e; ++i)
\*   results[i] = results[0].CopyRef();
RECURSIVE CopyErrorRef(_, _, _)
CopyErrorRef(h, i, e) ==
  IF h.aborted \/ i = e THEN h
  ELSE CopyErrorRef(WriteSlot(h, i, h.results[1]), i + 1, e)

\* Variant of DispatchExpectedFailure that makes a new error for every slot.
RECURSIVE EmitErrorPerSlot(_, _, _)
EmitErrorPerSlot(h, i, fr) ==
  IF h.aborted \/ (i # 0 /\ i = fr.nres) THEN h
  ELSE LET h1 == EmitErrorAsync(h, fr.loc)
       IN EmitErrorPerSlot(WriteSlot(h1, i, LastCell(h1)), i + 1, fr)

DispatchExpectedFailurePerSlot(h, fr) == EmitErrorPerSlot(h, 0, fr)

\* HandleReturn(Expected<T>&&) on failure.
DispatchExpectedFailure(h, fr) ==
  LET h1 == EmitErrorAsync(h, fr.loc)
      h2 == WriteSlot(h1, 0, LastCell(h1))
  IN CopyErrorRef(h2, 1, fr.nres)

\* t->AndThen(...): the continuation is kept until the cell is resolved.
\* id numbers the continuations in the order of their registration.
AndThen(h, c, loc) ==
  [h EXCEPT !.conts = @ \cup {[cell |-> c, loc |-> loc,
                               id |-> Cardinality(h.conts) + Cardinality(emitting)
                                        + Cardinality(ran) + 1]}]

DispatchHandleReturn(h, ret, out, fr, st) ==
  IF ret.fallible /\ ~out.ok THEN DispatchExpectedFailure(h, fr)
  ELSE CASE ret.shape = "T" ->
              IF fr.nres # 1 THEN Abort(h)
              ELSE LET h1 == MakeConcreteAsyncValueRef(h, h.rv[1], 0)
                   IN WriteSlot(h1, 0, LastCell(h1))
         [] ret.shape = "Chain" ->
              IF ToSize(st.result_idx) # fr.nres THEN Abort(h)
              ELSE [h EXCEPT !.chain = h.rv[1]]
         [] ret.shape = "AsyncT" ->
              IF fr.nres # 1 THEN Abort(h) ELSE WriteSlot(h, 0, h.rv[1])
         [] ret.shape = "Opaque" ->
              IF fr.nres # 1 THEN Abort(h)
              ELSE WriteSlot(AndThen(h, h.rv[1], fr.loc), 0, h.rv[1])
         [] ret.shape = "Tuple" ->
              IF fr.nres # Len(ret.elems) THEN Abort(h)
              ELSE DispatchEmplaceTupleResult(h, ret.elems, 0)
         [] OTHER -> h

\* DispatchReturnHelper<result_idx, has_chain, Return>::Invoke.
DispatchReturnHelper(h, ret, out, fr, st, pa) ==
  IF ret.shape = "void"
  THEN IF ToSize(st.result_idx) # fr.nres THEN Abort(h)
       ELSE ImplFn(h, "dispatch", ret, out, pa, fr.loc)
  ELSE DispatchHandleReturn(ImplFn(h, "dispatch", ret, out, pa, fr.loc),
                            ret, out, fr, st)

\* DispatchFnImpl::Invoke.
DispatchInvoke(f, fr, out) ==
  LET w == CallHelper("dispatch", f.sig, 1, fr, <<>>)
      h0 == Heap(fr)
  IN [pargs |-> w.pargs,
      heap |-> IF w.aborted THEN Abort(h0)
               ELSE DispatchReturnHelper(h0, f.ret, out, fr,
                                         FinalCursor("dispatch", f.sig), w.pargs)]

NoFn == [binder |-> "none", sig |-> <<>>, ret |-> Ret(FALSE, "void", <<>>)]
NoOut == [ok |-> TRUE, cst |-> "none", val |-> 0, eloc |-> 0, cell |-> 0]
\* A call frame: the sizes of arguments, result_mds and results, loc, the
\* states of the cells of arguments at the call, and whether
\* AsyncValue::get<T>() checks the state of the cell.
Frame(n, m, r, l, a, g) ==
  [nargs |-> n, nmds |-> m, nres |-> r, loc |-> l, args |-> a, get |-> g]

\* n inputs that hold their values.
Resolved(n) == [i \in 1..n |-> "value"]

NoFrame == Frame(0, 0, 0, 0, <<>>, "checked")

Init ==
  /\ status = "idle"
  /\ fn = NoFn
  /\ frame = NoFrame
  /\ pargs = <<>>
  /\ fnCalls = 0
  /\ fnOut = NoOut
  /\ rv = <<>>
  /\ results = <<>>
  /\ writes = <<>>
  /\ oob = {}
  /\ chain = 0
  /\ signal = 0
  /\ cells = <<>>
  /\ conts = {}
  /\ emitting = {}
  /\ ran = {}
  /\ sink = <<>>

\* TFRT_METADATA(f)
RegisterMetadata(n, rets) ==
  /\ status = "idle"
  /\ \E sig \in SeqsUpTo(MetadataKinds, n), ret \in MetadataRets \cap rets :
       /\ fn' = [binder |-> "metadata", sig |-> sig, ret |-> ret]
       /\ status' = IF Accepted("metadata", sig, ret) THEN "registered" ELSE "rejected"
  /\ UNCHANGED <<frame, pargs, fnCalls, fnOut, rv, results, writes, oob, chain,
                 signal, cells, conts, emitting, ran, sink>>

\* TFRT_CPU_OP(f)
RegisterDispatch(n, rets) ==
  /\ status = "idle"
  /\ \E sig \in SeqsUpTo(DispatchKinds, n), ret \in DispatchRets \cap rets :
       /\ fn' = [binder |-> "dispatch", sig |-> sig, ret |-> ret]
       /\ status' = IF Accepted("dispatch", sig, ret) THEN "registered" ELSE "rejected"
  /\ UNCHANGED <<frame, pargs, fnCalls, fnOut, rv, results, writes, oob, chain,
                 signal, cells, conts, emitting, ran, sink>>

\* A call of the registered binder, from entry to return (or abort).
Install(fr, out, r) ==
  /\ frame' = fr
  /\ fnOut' = IF r.heap.fnCalls = fnCalls THEN NoOut ELSE out
  /\ rv' = r.heap.rv
  /\ pargs' = r.pargs
  /\ status' = IF r.heap.aborted THEN "aborted" ELSE "returned"
  /\ fnCalls' = r.heap.fnCalls
  /\ results' = r.heap.results
  /\ writes' = r.heap.writes
  /\ oob' = r.heap.oob
  /\ chain' = r.heap.chain
  /\ signal' = r.heap.signal
  /\ cells' = r.heap.cells
  /\ conts' = r.heap.conts
  /\ UNCHANGED <<fn, emitting, ran, sink>>

MetadataFrames ==
  {Frame(n, 0, r, l, Resolved(n), "checked") :
     n \in 0..MaxArgs, r \in 0..MaxResults, l \in Locs}

DispatchFrames ==
  {Frame(n, m, r, l, Resolved(n), "checked") :
     n \in 0..MaxArgs, m \in 0..MaxMds, r \in 0..MaxResults, l \in Locs}

CallMetadata ==
  /\ status = "registered"
  /\ fn.binder = "metadata"
  /\ \E fr \in MetadataFrames, out \in Outs(fn.ret) :
       Install(fr, out, MetadataInvoke(fn, fr, out))

CallDispatch ==
  /\ status = "registered"
  /\ fn.binder = "dispatch"
  /\ \E fr \in DispatchFrames, out \in Outs(fn.ret) :
       Install(fr, out, DispatchInvoke(fn, fr, out))

\* The producer of a pending cell resolves it, to a value or to an error
\* that may or may not carry a location already.
Resolve ==
  /\ status = "returned"
  /\ \E c \in 1..Len(cells) :
       /\ cells[c].state = "pending"
       /\ \/ \E v \in Vals : cells' = [cells EXCEPT ![c].state = "value", ![c].val = v]
          \/ \E l \in ErrLocs : cells' = [cells EXCEPT ![c].state = "error", ![c].loc = l]
  /\ UNCHANGED <<status, fn, frame, pargs, fnCalls, fnOut, rv, results, writes,
                 oob, chain, signal, conts, emitting, ran, sink>>

\* AsyncValue::SetErrorLocationIfUnset.
SetErrorLocationIfUnset(c, loc) == IF c.loc = 0 THEN [c EXCEPT !.loc = loc] ELSE c

\* Variant of ContinuationIsError without the test of IsError().
ContinuationIsErrorAlways(k, cs) == TRUE

\* if (t->IsError()) of the continuation of
\* HandleReturn(RCReference<AsyncValue>).
ContinuationIsError(k, cs) == cs[k.cell].state = "error"

\* Variant of ContinuationStamp that stamps with SetErrorLocation.
ContinuationStampOverwrites(k, cs) == [cs EXCEPT ![k.cell].loc = k.loc]

\* t->SetErrorLocationIfUnset(loc.Decode()): the cells after it.  The test
\* and the store are one step of the error.
ContinuationStamp(k, cs) ==
  [cs EXCEPT ![k.cell] = SetErrorLocationIfUnset(cs[k.cell], k.loc)]

\* loc.GetHost()->EmitError(t->GetError()): the sink after it.  The error
\* is read when it is reported; by tells the call whose continuation
\* reported it.
EmitError(k, cs, sk) ==
  Append(sk, [cell |-> k.cell, loc |-> cs[k.cell].loc, by |-> k.loc])

\* A continuation starts once its cell is resolved: it tests IsError() and,
\* on an error, stamps it.  On a value it is over.  Continuations of one
\* cell run on any threads: between this call and EmitError others may
\* start, stamp and report.
RunContinuation ==
  /\ status = "returned"
  /\ \E k \in conts :
       /\ cells[k.cell].state # "pending"
       /\ conts' = conts \ {k}
       /\ IF ContinuationIsError(k, cells)
          THEN /\ cells' = ContinuationStamp(k, cells)
               /\ emitting' = emitting \cup {k}
               /\ ran' = ran
          ELSE /\ ran' = ran \cup {k}
               /\ UNCHANGED <<cells, emitting>>
  /\ UNCHANGED <<status, fn, frame, pargs, fnCalls, fnOut, rv, results, writes,
                 oob, chain, signal, sink>>

\* The second call of the continuation on an error: the report to the host.
ContinuationEmitError ==
  /\ status = "returned"
  /\ \E k \in emitting :
       /\ sink' = EmitError(k, cells, sink)
       /\ emitting' = emitting \ {k}
       /\ ran' = ran \cup {k}
  /\ UNCHANGED <<status, fn, frame, pargs, fnCalls, fnOut, rv, results, writes,
                 oob, chain, signal, cells, conts>>

\* Calls of functions of every return type, with short signatures.
Next ==
  \/ RegisterMetadata(MaxCallParams, AllRets)
  \/ RegisterDispatch(MaxCallParams, AllRets)
  \/ CallMetadata
  \/ CallDispatch
  \/ Resolve
  \/ RunContinuation
  \/ ContinuationEmitError

Spec == Init /\ [][Next]_vars

\* Registration alone, over longer signatures.
NextReg ==
  \/ RegisterMetadata(MaxParams, AllRets)
  \/ RegisterDispatch(MaxParams, AllRets)

SpecReg == Init /\ [][NextReg]_vars

\* Calls of functions with longer signatures.  The recursion over the
\* parameters does not depend on the return type, which is used from the
\* base case on: these functions return nothing, an error signal or one
\* value.
NextBind ==
  \/ RegisterMetadata(MaxBindParams, BindRets)
  \/ RegisterDispatch(MaxBindParams, BindRets)
  \/ CallMetadata
  \/ CallDispatch

SpecBind == Init /\ [][NextBind]_vars

\* Several calls of one function that returns an asynchronous value, from
\* call sites that may differ.  The value is a new cell or a handle of a
\* cell that an earlier call returned already (a cached or forwarded value).
SharedLocs == 1..(MaxLoc + 1)
SharedRets == {Ret(FALSE, s, <<>>) : s \in {"AsyncT", "Opaque"}}

\* The function returns a new cell, still pending, or a handle of a cell
\* that exists.
SharedOuts(ret) ==
  {o \in Outs(ret) : o.cst = "pending" /\ Len(cells) < MaxSharedCells}
  \cup {[NoOut EXCEPT !.cell = c] : c \in 1..Len(cells)}

\* The frames of a function without parameters that returns one value.
SharedFrames == {Frame(0, 0, 1, l, <<>>, "checked") : l \in SharedLocs}

\* TFRT_CPU_OP(f) of such a function.
RegisterShared == RegisterDispatch(0, SharedRets)

CallShared ==
  /\ status \in {"registered", "returned"}
  /\ fn.binder = "dispatch"
  /\ fnCalls < MaxCalls
  /\ \E fr \in SharedFrames, out \in SharedOuts(fn.ret) :
       Install(fr, out, DispatchInvoke(fn, fr, out))

NextShared ==
  \/ RegisterShared
  \/ CallShared
  \/ Resolve
  \/ RunContinuation
  \/ ContinuationEmitError

SpecShared == Init /\ [][NextShared]_vars

\* Calls of the dispatch binder with inputs in any state: the caller hands
\* over handles of values that may be pending still.
InFrames ==
  {Frame(Len(a), 0, r, l, a, g) :
     a \in SeqsUpTo(CellStates, MaxInArgs), r \in {0, 1}, l \in Locs,
     g \in {"checked", "unchecked"}}

CallDispatchIn ==
  /\ status = "registered"
  /\ fn.binder = "dispatch"
  /\ \E fr \in InFrames, out \in Outs(fn.ret) :
       Install(fr, out, DispatchInvoke(fn, fr, out))

NextIn ==
  \/ RegisterDispatch(MaxInParams, BindRets)
  \/ CallDispatchIn

SpecIn == Init /\ [][NextIn]_vars

(***************************************************************************)
(* Vocabulary of the properties                                            *)
(***************************************************************************)
Returned == status = "returned"
Done == status \in {"returned", "aborted"}
IsAccepted == status \in {"registered", "returned", "aborted"}

InputsOf(sig) == SelectSeq(sig, LAMBDA k : k \in InputKinds)
NumPositional(sig) == Len(SelectSeq(sig, LAMBDA k : k \in PositionalKinds))
NumOptVar(sig) == Len(SelectSeq(sig, LAMBDA k : k \in OptVarKinds))

\* The input parameters of sig are P positional ones followed by one of kind k.
PositionalThen(sig, k) ==
  LET in == InputsOf(sig)
  IN /\ in # <<>>
     /\ in[Len(in)] = k
     /\ \A j \in 1..(Len(in) - 1) : in[j] \in PositionalKinds

PargsOf(K) == SelectSeq(pargs, LAMBDA p : p.kind \in K)

RECURSIVE Indices(_)
Indices(pa) == IF pa = <<>> THEN <<>> ELSE pa[1].at \o Indices(Tail(pa))

\* 0, 1, ..., n-1
UpTo(n) == [j \in 1..n |-> j - 1]

ErrorsEmitted == {c \in 1..Len(cells) : cells[c].origin = "emit"}

(***************************************************************************)
(* C1                                                                      *)
(***************************************************************************)
IsFallibleFailure ==
  /\ Returned
  /\ fn.binder = "dispatch"
  /\ fn.ret.fallible
  /\ ~fnOut.ok
  /\ frame.nres > 1

\* C1: when a dispatch function's fallible return is a failure and the call
\* has N > 1 result slots, all N slots refer to one and the same error cell,
\* that cell is the only error created by the call, and it carries the
\* call's Location.
C1_FallibleFailureSharesOneError ==
  IsFallibleFailure =>
    /\ results[1] # 0
    /\ \A i \in 1..frame.nres : results[i] = results[1]
    /\ cells[results[1]].state = "error"
    /\ cells[results[1]].loc = frame.loc
    /\ ErrorsEmitted = {results[1]}

C1_Witness ==
  /\ IsFallibleFailure
  /\ frame.nres = MaxResults
  /\ results[MaxResults] = results[1]
  /\ results[1] # 0

(***************************************************************************)
(* C2                                                                      *)
(***************************************************************************)
\* C2: whenever a binder call returns normally, every result slot of the
\* call has been filled, and none was written more than once (through a
\* result-slot parameter and/or by the result adapter).
C2_EverySlotWrittenExactlyOnce ==
  (Returned /\ ~(fn.binder = "metadata" /\ signal # 0)) =>
    \A i \in 1..frame.nres : writes[i] = 1

(***************************************************************************)
(* C3                                                                      *)
(***************************************************************************)
\* C3: in every call that reaches the invocation of the op function, the
\* input parameters are bound, in declaration order, to the frame indices
\* 0..len-1, each index exactly once: a positional parameter to one index,
\* an Optional to the last index or to none, a Variadic to all the rest.
C3_InputsBoundExactlyOnce ==
  fnCalls > 0 =>
    /\ Indices(PargsOf(InputKinds)) = UpTo(frame.nargs)
    /\ \A i \in 1..Len(pargs) :
         /\ pargs[i].kind \in PositionalKinds => Len(pargs[i].at) = 1
         /\ pargs[i].kind = "Opt" =>
              pargs[i].at \in {<<>>, <<frame.nargs - 1>>}

C3_Witness ==
  /\ Returned
  /\ fnCalls > 0
  /\ frame.nargs = 2
  /\ \E i \in 1..Len(pargs) : pargs[i].kind = "Opt" /\ pargs[i].at = <<1>>

(***************************************************************************)
(* C4                                                                      *)
(***************************************************************************)
PositionalAfterOptVar(sig) ==
  \E i, j \in 1..Len(sig) :
    i < j /\ sig[i] \in OptVarKinds /\ sig[j] \in PositionalKinds

\* C4: a signature with a positional input parameter after an Optional or
\* Variadic one is rejected at registration, by both binders.
C4_PositionalAfterOptVarRejected ==
  IsAccepted => ~PositionalAfterOptVar(fn.sig)

(***************************************************************************)
(* C5                                                                      *)
(***************************************************************************)
\* C5: a signature accepted at registration has at most one Optional or
\* Variadic parameter in total.
C5_AtMostOneOptVar ==
  IsAccepted => NumOptVar(fn.sig) <= 1

(***************************************************************************)
(* C6                                                                      *)
(***************************************************************************)
IsOptionalCall == Done /\ PositionalThen(fn.sig, "Opt")

\* C6: for a signature of P positional inputs followed by one Optional, a
\* frame of length P binds the Optional to absent, a frame of length P+1
\* binds it to entry P, and with any other frame length the call fails its
\* consistency check without invoking the function.
C6_OptionalBinding ==
  IsOptionalCall =>
    LET P == NumPositional(fn.sig)
        opt == PargsOf({"Opt"})
    IN /\ frame.nargs \notin {P, P + 1} => status = "aborted" /\ fnCalls = 0
       /\ frame.nargs = P => opt # <<>> /\ opt[1].at = <<>>
       /\ frame.nargs = P + 1 => opt # <<>> /\ opt[1].at = <<P>>

C6_Witness ==
  /\ IsOptionalCall
  /\ Returned
  /\ NumPositional(fn.sig) = 1
  /\ frame.nargs = 1
  /\ PargsOf({"Opt"})[1].at = <<>>

(***************************************************************************)
(* C7                                                                      *)
(***************************************************************************)
IsVariadicCall ==
  /\ Done
  /\ PositionalThen(fn.sig, "Var")
  /\ frame.nargs >= NumPositional(fn.sig)

\* C7: for a signature of P positional inputs followed by one Variadic and a
\* frame of length P+K, the Variadic is bound to exactly the entries
\* P..P+K-1 in frame order, and the positional parameters to the entries
\* 0..P-1 in declaration order.
C7_VariadicBinding ==
  IsVariadicCall =>
    LET P == NumPositional(fn.sig)
        var == PargsOf({"Var"})
        pos == PargsOf(PositionalKinds)
    IN /\ var # <<>>
       /\ var[1].at = [j \in 1..(frame.nargs - P) |-> P + j - 1]
       /\ Len(pos) = P
       /\ \A j \in 1..P : pos[j].at = <<j - 1>>

C7_Witness ==
  /\ IsVariadicCall
  /\ Returned
  /\ NumPositional(fn.sig) = 1
  /\ frame.nargs = 3
  /\ PargsOf({"Var"})[1].at = <<1, 2>>

(***************************************************************************)
(* C8                                                                      *)
(***************************************************************************)
IsConcreteTupleReturn ==
  /\ Done
  /\ fnCalls > 0
  /\ fn.ret.shape = "Tuple"
  /\ fnOut.ok
  /\ \A i \in 1..Len(fn.ret.elems) : fn.ret.elems[i] = "c"

SlotValue(i) ==
  IF fn.binder = "metadata" THEN results[i] ELSE cells[results[i]].val

\* C8: a function returning an N-tuple of concrete values against N result
\* slots leaves element i in slot i (in the dispatch binder each in its own
\* resolved cell); against another slot count the call fails its
\* consistency check and no slot is written.
C8_TupleReturn ==
  IsConcreteTupleReturn =>
    IF frame.nres = Len(fn.ret.elems)
    THEN /\ Returned
         /\ \A i \in 1..frame.nres :
              /\ results[i] # 0
              /\ SlotValue(i) = FnVals(fn.ret)[i]
              /\ fn.binder = "dispatch" =>
                   /\ cells[results[i]].state = "value"
                   /\ \A j \in 1..frame.nres : results[j] = results[i] => j = i
    ELSE /\ status = "aborted"
         /\ \A i \in 1..frame.nres : writes[i] = 0

(***************************************************************************)
(* C9                                                                      *)
(***************************************************************************)
IsPendingPassThrough ==
  /\ Returned
  /\ fn.binder = "dispatch"
  /\ fn.ret.shape \in {"AsyncT", "Opaque"}
  /\ fnOut.ok
  /\ fnOut.cst = "pending"

HasContinuation(c) == \E k \in conts \cup emitting : k.cell = c

\* C9: when a dispatch function returns a pending asynchronous value (typed
\* or opaque) as its single result, the slot holds that very cell, and once
\* the cell has resolved to an error (and any continuation on it has run)
\* the error carries a Location.
C9_AsyncPassThrough ==
  IsPendingPassThrough =>
    /\ results[1] = rv[1]
    /\ (cells[results[1]].state = "error" /\ ~HasContinuation(results[1]))
         => cells[results[1]].loc # 0

(***************************************************************************)
(* C10                                                                     *)
(***************************************************************************)
IsOpaqueReturn ==
  /\ Returned
  /\ fn.binder = "dispatch"
  /\ fn.ret.shape = "Opaque"
  /\ fnOut.ok

ThisContinuation == [cell |-> rv[1], loc |-> frame.loc, id |-> 1]

C10_State ==
  IsOpaqueReturn =>
    LET c == cells[rv[1]]
    IN /\ c.state = "pending" => ThisContinuation \in conts /\ sink = <<>>
       /\ c.state = "value" =>
            sink = <<>> /\ c.loc = 0 /\ ThisContinuation \notin emitting
       /\ ThisContinuation \in conts => sink = <<>>
       /\ ThisContinuation \in emitting => c.loc # 0 /\ sink = <<>>
       /\ (c.state = "error" /\ ThisContinuation \in ran) =>
            /\ Len(sink) = 1
            /\ sink[1].cell = rv[1]
            /\ c.loc # 0
            /\ sink[1].loc = c.loc

C10_Step ==
  (IsOpaqueReturn /\ cells[rv[1]].state = "error") =>
    /\ cells[rv[1]].loc # 0 => cells'[rv[1]].loc = cells[rv[1]].loc
    /\ (cells[rv[1]].loc = 0 /\ cells'[rv[1]].loc # 0) =>
         /\ cells'[rv[1]].loc = frame.loc
         /\ ThisContinuation \in emitting'
         /\ sink' = sink
    /\ sink' # sink =>
         /\ ThisContinuation \in emitting
         /\ ThisContinuation \in ran'
         /\ sink' = <<[cell |-> rv[1], loc |-> cells[rv[1]].loc, by |-> frame.loc]>>

\* C10: for an opaque asynchronous result, the continuation does nothing
\* while the value is pending; a value that resolves to a non-error is
\* neither stamped nor reported; an error is stamped with the call's
\* Location only if it has none, and is then, stamped, reported to the sink
\* exactly once.
C10_OpaqueContinuation == [](C10_State) /\ [][C10_Step]_vars

C10_Witness ==
  /\ IsOpaqueReturn
  /\ fnOut.cst = "pending"
  /\ cells[rv[1]].state = "error"
  /\ cells[rv[1]].loc \notin {0, frame.loc}
  /\ ThisContinuation \in ran
  /\ Len(sink) = 1
(***************************************************************************)
(* C11                                                                     *)
(***************************************************************************)
\* The continuations that have made their stamp attempt on error c.
Stamped(c) == {k \in emitting \cup ran : k.cell = c}

C11_Step ==
  \A c \in 1..Len(cells) :
    cells[c].state = "error" =>
      /\ cells[c].loc # 0 => cells'[c].loc = cells[c].loc
      /\ (cells[c].loc = 0 /\ cells'[c].loc # 0) =>
           /\ Stamped(c) = {}
           /\ \E k \in conts :
                /\ k.cell = c
                /\ emitting' = emitting \cup {k}
                /\ cells'[c].loc = k.loc
      /\ (cells[c].loc = 0 /\ conts' # conts) =>
           \A k \in conts \ conts' : k.cell = c => cells'[c].loc = k.loc

\* C11: the Location stored in an error is never changed by a later stamp
\* attempt, whatever the order in which the continuations of several calls
\* that returned the same cell stamp and report; an error without a
\* Location receives the Location of the first continuation that makes its
\* stamp attempt on it, and no other write of it happens.
C11_StampIdempotent == [][C11_Step]_vars

\* Two calls from different call sites returned the same cell; the first
\* stamped it and has not reported yet, the second made its attempt after
\* that and has reported already: the error carries the first Location.
C11_Witness ==
  \E k1 \in emitting, k2 \in ran :
    /\ k1.cell = k2.cell
    /\ k1.loc # k2.loc
    /\ cells[k1.cell].loc = k1.loc
    /\ sink = <<[cell |-> k1.cell, loc |-> k1.loc, by |-> k2.loc]>>
(***************************************************************************)
(* C12                                                                     *)
(***************************************************************************)
\* C12: when a dispatch function returned a pending asynchronous value
\* (typed or opaque) that has since resolved to an error, then, once no
\* continuation is left to run, the error carries a Location and has been
\* reported to the sink.
C12_AsyncErrorsReachSink ==
  (IsPendingPassThrough /\ cells[rv[1]].state = "error" /\ conts = {} /\ emitting = {}) =>
    /\ cells[rv[1]].loc # 0
    /\ \E i \in 1..Len(sink) : sink[i].cell = rv[1]
(***************************************************************************)
(* C13                                                                     *)
(***************************************************************************)
NumOfKind(sig, k) == Len(SelectSeq(sig, LAMBDA x : x = k))

\* C13: a signature accepted at registration has at most one attribute-set
\* parameter, at most one chain parameter and at most one context
\* parameter of each kind.
C13_SingletonKindsAtMostOnce ==
  IsAccepted => \A k \in {"Attrs", "Chain", "Host"} : NumOfKind(fn.sig, k) <= 1
(***************************************************************************)
(* C14                                                                     *)
(***************************************************************************)
IsChainReturn ==
  /\ fn.binder = "dispatch"
  /\ fn.ret.shape = "Chain"

\* The number of times slot i was handed to the function as a result-slot
\* parameter.
HandedOut(i) ==
  Cardinality({j \in 1..Len(pargs) : pargs[j].kind = "Res" /\ pargs[j].at = <<i - 1>>})

\* C14: a dispatch function that returns a chain and declares a chain
\* parameter is rejected; when an accepted one returns its chain, the call
\* fails its consistency check unless it has as many result slots as the
\* function has result-slot parameters, and a call that returns has the
\* returned chain as its chain and no slot written by the adapter (the
\* slots hold what the function stored through its parameters).
C14_ChainReturn ==
  IsChainReturn =>
    /\ IsAccepted => NumOfKind(fn.sig, "Chain") = 0
    /\ (Done /\ (fnCalls > 0 => fnOut.ok)) =>
         /\ NumOfKind(fn.sig, "Res") # frame.nres => status = "aborted"
         /\ Returned =>
              /\ chain # 0
              /\ chain = rv[1]
              /\ \A i \in 1..frame.nres :
                   /\ writes[i] = HandedOut(i)
                   /\ results[i] # 0 => cells[results[i]].origin = "param"

C14_Witness ==
  /\ IsChainReturn
  /\ Returned
  /\ frame.nres = 1
  /\ NumOfKind(fn.sig, "Res") = 1
  /\ chain = rv[1]
  /\ chain # 0
(***************************************************************************)
(* C15                                                                     *)
(***************************************************************************)
\* C15: a dispatch function returning nothing is accepted only if it
\* declares a result-slot or chain parameter, and a call of it returns
\* normally only if every result slot of the call was handed to the
\* function as a result-slot parameter and filled through it.
C15_NothingReturn ==
  (fn.binder = "dispatch" /\ fn.ret.shape = "void") =>
    /\ IsAccepted => NumOfKind(fn.sig, "Res") + NumOfKind(fn.sig, "Chain") >= 1
    /\ Returned => \A i \in 1..frame.nres : HandedOut(i) = 1 /\ writes[i] = 1

(***************************************************************************)
(* C16                                                                     *)
(***************************************************************************)
\* C16: a function that returns a tuple directly and declares a result-slot
\* parameter is not accepted, so that no call that returns has a slot both
\* handed to the function as a result-slot parameter and written by the
\* tuple adapter.
C16_TupleExcludesResultParams ==
  (fn.ret.shape = "Tuple" /\ ~fn.ret.fallible) =>
    /\ IsAccepted => NumOfKind(fn.sig, "Res") = 0
    /\ Returned => \A i \in 1..frame.nres : ~(HandedOut(i) > 0 /\ writes[i] > HandedOut(i))
(***************************************************************************)
(* C17                                                                     *)
(***************************************************************************)
\* C17: when a dispatch function returns a tuple, an element that is an
\* asynchronous value is in the slot of its position as that very cell,
\* and a concrete element is there as a new resolved cell holding it.
C17_TupleElementsPassThrough ==
  (Returned /\ fn.binder = "dispatch" /\ fn.ret.shape = "Tuple" /\ fnOut.ok) =>
    \A i \in 1..Len(fn.ret.elems) :
      /\ fn.ret.elems[i] = "a" => results[i] = rv[i]
      /\ fn.ret.elems[i] = "c" =>
           /\ results[i] # 0
           /\ cells[results[i]].origin = "concrete"
           /\ cells[results[i]].state = "value"
           /\ cells[results[i]].val = rv[i]

(***************************************************************************)
(* C18                                                                     *)
(***************************************************************************)
IsConcreteReturn == fn.binder = "dispatch" /\ fn.ret.shape = "T"

ConcreteCells == {c \in 1..Len(cells) : cells[c].origin = "concrete"}

\* C18: a dispatch function returning one concrete value is accepted only
\* without result-slot parameters; a call with a slot count other than one
\* fails its consistency check, and a call that returns the value has its
\* one slot assigned once, with the one new resolved cell that holds the
\* value.
C18_ConcreteReturn ==
  IsConcreteReturn =>
    /\ IsAccepted => NumOfKind(fn.sig, "Res") = 0
    /\ (Done /\ (fnCalls > 0 => fnOut.ok) /\ frame.nres # 1) => status = "aborted"
    /\ (Returned /\ fnOut.ok) =>
         /\ results[1] # 0
         /\ writes[1] = 1
         /\ ConcreteCells = {results[1]}
         /\ cells[results[1]] = Cell("value", FnVals(fn.ret)[1], 0, 0, "concrete")

C18_Witness ==
  /\ IsConcreteReturn
  /\ Returned
  /\ fnOut.ok
  /\ frame.nres = 1
  /\ cells[results[1]].val = 1

(***************************************************************************)
(* C19                                                                     *)
(***************************************************************************)
IsMetadataFallible ==
  /\ Returned
  /\ fn.binder = "metadata"
  /\ fn.ret.fallible

\* C19: when the fallible return of a metadata function is a failure, the
\* binder returns a signal that is an error already, carrying the call's
\* Location, and no result slot is written; when it is a success with a
\* value or a tuple, the binder returns the empty signal and the slots hold
\* the returned values in order.
C19_MetadataFallible ==
  IsMetadataFallible =>
    /\ ~fnOut.ok =>
         /\ signal # 0
         /\ cells[signal].state = "error"
         /\ cells[signal].loc = frame.loc
         /\ \A i \in 1..frame.nres : writes[i] = 0 /\ results[i] = 0
    /\ (fnOut.ok /\ fn.ret.shape \in {"T", "Tuple"}) =>
         /\ signal = 0
         /\ frame.nres = Len(FnVals(fn.ret))
         /\ \A i \in 1..frame.nres : results[i] = FnVals(fn.ret)[i]

C19_Witness ==
  /\ IsMetadataFallible
  /\ ~fnOut.ok
  /\ frame.nres = MaxResults
  /\ signal # 0
  /\ cells[signal].state = "error"

C19_WitnessSuccess ==
  /\ IsMetadataFallible
  /\ fnOut.ok
  /\ fn.ret.shape = "Tuple"
  /\ frame.nres = MaxTuple
  /\ results[MaxTuple] = MaxTuple
(***************************************************************************)
(* C20                                                                     *)
(***************************************************************************)
\* The states, at the call, of the input cells whose value was taken for
\* the bound parameter p.
ValueTaken(p) ==
  IF p.kind \in {"Pos", "Opt"}
  THEN {frame.args[p.at[x] + 1] : x \in 1..Len(p.at)}
  ELSE {}

\* C20: the dispatch binder takes the value of no input cell that is
\* pending at the call: every input bound to a concrete-typed positional
\* or Optional parameter is resolved when the binder dereferences it.
C20_NeverReadsPending ==
  (fn.binder = "dispatch" /\ Done) =>
    \A j \in 1..Len(pargs) : "pending" \notin ValueTaken(pargs[j])
(***************************************************************************)
(* C21                                                                     *)
(***************************************************************************)
\* The number of result slots the returned value fills.
Produced(ret) ==
  CASE ret.shape \in {"T", "AsyncT", "Opaque"} -> 1
    [] ret.shape = "Tuple" -> Len(ret.elems)
    [] OTHER -> 0

\* The frame has as many inputs as the input parameters take.
InputsFit(f, fr) ==
  LET P == NumPositional(f.sig)
      in == InputsOf(f.sig)
  IN CASE \E i \in 1..Len(in) : in[i] = "Var" -> fr.nargs >= P
       [] \E i \in 1..Len(in) : in[i] = "Opt" -> fr.nargs \in {P, P + 1}
       [] OTHER -> fr.nargs = P

\* It has as many output-metadata entries as there are parameters for
\* them, unless there is no such parameter.
MdsFit(f, fr) == NumOfKind(f.sig, "Md") \in {0, fr.nmds}

\* It has one result slot for every result-slot parameter and every
\* returned value.
SlotsFit(f, fr) == fr.nres = NumOfKind(f.sig, "Res") + Produced(f.ret)

\* The frame fr fits the signature.
Consistent(f, fr) == InputsFit(f, fr) /\ MdsFit(f, fr) /\ SlotsFit(f, fr)

\* C21: a call of an accepted function with a frame that fits its
\* signature binds every declared parameter, invokes the function exactly
\* once and returns; it never stops on a consistency failure.
C21_BoundCallCompletes ==
  (Done /\ Consistent(fn, frame)) =>
    /\ Returned
    /\ fnCalls = 1
    /\ Len(pargs) = Len(fn.sig)
(***************************************************************************)
(* C22                                                                     *)
(***************************************************************************)
IsDispatchFailure ==
  /\ Done
  /\ fn.binder = "dispatch"
  /\ fn.ret.fallible
  /\ fnCalls > 0
  /\ ~fnOut.ok

\* C22: when the fallible return of a dispatch function is a failure in a
\* call without result slots, the adapter assigns no slot index (none
\* outside the slot array) and leaves the chain alone.
C22_FailureWithoutSlots ==
  (IsDispatchFailure /\ frame.nres = 0) =>
    /\ oob = {}
    /\ chain = 0

(***************************************************************************)
(* C23                                                                     *)
(***************************************************************************)
\* C23: with any slot count and any signature, a failed fallible return of
\* a dispatch function leaves the chain as it was and writes result slots
\* only: every assignment of the adapter is to a slot of the call, and the
\* only cell made is the error.
C23_FailureFrameEffect ==
  IsDispatchFailure =>
    /\ chain = 0
    /\ oob = {}
    /\ \A c \in 1..Len(cells) : cells[c].origin = "emit"
    /\ conts = {}
    /\ emitting = {}

(***************************************************************************)
(* C24                                                                     *)
(***************************************************************************)
\* The phase of a parameter kind (0: Location and context parameters,
\* which may stand anywhere).
Phase(k) ==
  CASE k \in PositionalKinds -> 1
    [] k \in OptVarKinds -> 2
    [] k = "Attrs" -> 3
    [] k = "Md" -> 4
    [] k = "Res" -> 5
    [] k = "Chain" -> 6
    [] OTHER -> 0

\* C24: in a signature the dispatch binder accepts, leaving Location and
\* context parameters aside, the parameters stand in the order positional
\* inputs, Optional/Variadic input, attribute set, output metadata, result
\* slots, chain.
C24_PhaseOrder ==
  (IsAccepted /\ fn.binder = "dispatch") =>
    \A i, j \in 1..Len(fn.sig) :
      (i < j /\ Phase(fn.sig[i]) # 0 /\ Phase(fn.sig[j]) # 0) =>
        Phase(fn.sig[i]) <= Phase(fn.sig[j])
(***************************************************************************)
(* C25                                                                     *)
(***************************************************************************)
\* C25: in both binders the k-th result-slot parameter is bound to slot
\* k-1 of the call, whatever input parameters the signature has; no two
\* are bound to one slot, and a call with fewer slots than result-slot
\* parameters fails its consistency check.
C25_ResultParamsInOrder ==
  Done =>
    LET res == PargsOf({"Res"})
    IN /\ \A k \in 1..Len(res) : res[k].at = <<k - 1>> /\ k - 1 < frame.nres
       /\ \A k, l \in 1..Len(res) : res[k].at = res[l].at => k = l
       /\ fnCalls > 0 => Len(res) = NumOfKind(fn.sig, "Res")
       /\ NumOfKind(fn.sig, "Res") > frame.nres => status = "aborted" /\ fnCalls = 0

C25_Witness ==
  /\ Returned
  /\ fnCalls > 0
  /\ NumPositional(fn.sig) = 1
  /\ Len(PargsOf({"Res"})) = 2
  /\ PargsOf({"Res"})[2].at = <<1>>
  /\ frame.nres = 2
(***************************************************************************)
(* C26                                                                     *)
(***************************************************************************)
\* The number of reports of cell c to the sink.
Reports(c) == Cardinality({i \in 1..Len(sink) : sink[i].cell = c})

\* C26: an asynchronous cell that resolved to an error is reported to the
\* sink once in all, however many calls returned it as their opaque
\* result and in whatever order their continuations ran: never more than
\* once, and once when no continuation on it is left to run.
C26_ReportedOncePerError ==
  (Returned /\ fn.binder = "dispatch" /\ fn.ret.shape = "Opaque") =>
    \A c \in 1..Len(cells) :
      /\ Reports(c) <= 1
      /\ (cells[c].state = "error" /\ ~HasContinuation(c)) => Reports(c) = 1
(***************************************************************************)
(* C27                                                                     *)
(***************************************************************************)
\* C27: a dispatch call invokes the function only if the signature has no
\* output-metadata parameter or as many as the call has output-metadata
\* entries; the j-th such parameter is bound to entry j-1; with some but
\* fewer, or with more, the call fails its consistency check.
C27_MetadataAllOrNone ==
  (fn.binder = "dispatch" /\ Done) =>
    LET mds == PargsOf({"Md"})
        n == NumOfKind(fn.sig, "Md")
    IN /\ fnCalls > 0 => n \in {0, frame.nmds}
       /\ \A j \in 1..Len(mds) : mds[j].at = <<j - 1>>
       /\ n \notin {0, frame.nmds} => status = "aborted" /\ fnCalls = 0

C27_Witness ==
  /\ fn.binder = "dispatch"
  /\ Returned
  /\ fnCalls > 0
  /\ frame.nmds = 2
  /\ Len(PargsOf({"Md"})) = 2
  /\ PargsOf({"Md"})[2].at = <<1>>
(***************************************************************************)
(* C28                                                                     *)
(***************************************************************************)
\* C28, as stated: in both binders the function is invoked only in calls
\* whose frame fits the signature in its input count, its output-metadata
\* count and its result-slot count.
C28_FailuresPrecedeFunction ==
  (Done /\ ~Consistent(fn, frame)) => fnCalls = 0

\* The part of the result-slot count that is checked before the function
\* is invoked: the slots suffice for the result-slot parameters; they are
\* exactly as many when a dispatch function returns nothing, and as many
\* or none at all of them are declared in the metadata binder.
SlotsFitEarly(f, fr) ==
  LET n == NumOfKind(f.sig, "Res")
  IN /\ n <= fr.nres
     /\ (f.binder = "dispatch" /\ f.ret.shape = "void") => n = fr.nres
     /\ f.binder = "metadata" => n \in {0, fr.nres}

\* C28, amended: a frame that does not fit the signature in its input
\* count, in its output-metadata count or in the early part of the
\* result-slot count fails its consistency check before the function is
\* invoked.
C28_EarlyFailuresPrecedeFunction ==
  (Done /\ ~(InputsFit(fn, frame) /\ MdsFit(fn, frame) /\ SlotsFitEarly(fn, frame))) =>
    status = "aborted" /\ fnCalls = 0

C28_Witness ==
  /\ Done
  /\ fn.binder = "metadata"
  /\ InputsFit(fn, frame)
  /\ NumOfKind(fn.sig, "Res") = 1
  /\ frame.nres = 2
  /\ status = "aborted"
  /\ fnCalls = 0
====
